---- MODULE Spec2Model ----
(***************************************************************************)
(* A model of oaipmh/metadata.py: the MetadataRegistry (two dictionaries   *)
(* of readers and writers keyed by metadata prefix) and the MetadataReader *)
(* (the field-driven reader), with the built-in oai_dc_reader.             *)
(*                                                                         *)
(* Python values are records [t, s, l]: t is the Python type, s the text   *)
(* of a str (or the name of a raised exception), l the items of a list.    *)
(***************************************************************************)
EXTENDS Naturals, Sequences, FiniteSets, TLC

VARIABLES
    readers,    \* MetadataRegistry._readers : metadata_prefix -> reader
    writers,    \* MetadataRegistry._writers : metadata_prefix -> writer
    result,     \* the most recent call: its name, its arguments, what it returned
    log,        \* history: the registerReader/registerWriter calls, in order
    checked     \* history: the prefixes for which hasReader has answered True

vars == <<readers, writers, result, log, checked>>

----------------------------------------------------------------------------
(* Bounds *)

\* the longest list of matches a path evaluation returns
MaxMatches == 2
\* the most registration calls of one run
MaxRegs == 2

----------------------------------------------------------------------------
(* Python values *)

PyStr(s)  == [t |-> "str",  s |-> s,  l |-> <<>>]
PyList(l) == [t |-> "list", s |-> "", l |-> l]
PyNone    == [t |-> "None", s |-> "", l |-> <<>>]
PyBool(b) == [t |-> "bool", s |-> IF b THEN "True" ELSE "False", l |-> <<>>]
Raise(exc) == [t |-> "raise", s |-> exc, l |-> <<>>]

\* repr() of the items of a list, joined with ", " as str(list) prints them
RECURSIVE ReprItems(_)
ReprItems(l) ==
    IF l = <<>> THEN ""
    ELSE LET h == Head(l)
             r == IF h.t = "str" THEN "'" \o h.s \o "'" ELSE h.s
         IN IF Len(l) = 1 THEN r ELSE r \o ", " \o ReprItems(Tail(l))

\* str(v), which is text_type(v) on Python 3: a str is itself, None prints
\* "None", a bool "True"/"False", a list "[" its items' repr "]"
Str(v) ==
    CASE v.t = "str"  -> PyStr(v.s)
      [] v.t = "None" -> PyStr("None")
      [] v.t = "bool" -> PyStr(v.s)
      [] v.t = "list" -> PyStr("[" \o ReprItems(v.l) \o "]")

\* [str(item) for item in l]
StrEach(l) == [i \in 1..Len(l) |-> Str(l[i])]

----------------------------------------------------------------------------
(* XML elements and element.xpath(expr, namespaces=...) *)

\* A path expression, parsed: child steps prefix:local, then what is taken of
\* the selected nodes. DcExpr(n) is 'oai_dc:dc/dc:<n>/text()'.
Step(prefix, local) == [prefix |-> prefix, local |-> local]
PathExpr(kind, steps) == [kind |-> kind, steps |-> steps]
\* the expression without its first step: 'dc:<n>/text()'
DcExprFromRoot(name) == PathExpr("text()", <<Step("dc", name)>>)
DcExpr(name) == PathExpr("text()", <<Step("oai_dc", "dc"), Step("dc", name)>>)
DcString(name) == PathExpr("string()", <<Step("oai_dc", "dc"), Step("dc", name)>>)

\* the children, in document order, of the nodes of ctx that the step names
RECURSIVE ChildrenNamed(_, _, _)
ChildrenNamed(ctx, step, namespaces) ==
    IF ctx = <<>> THEN <<>>
    ELSE SelectSeq(Head(ctx).children,
                   LAMBDA c : c.ns = namespaces[step.prefix] /\ c.local = step.local)
         \o ChildrenNamed(Tail(ctx), step, namespaces)

\* a relative location path: each step selects children of the nodes selected
\* so far, starting from the context node
RECURSIVE Select(_, _, _)
Select(ctx, steps, namespaces) ==
    IF steps = <<>> THEN ctx
    ELSE Select(ChildrenNamed(ctx, Head(steps), namespaces), Tail(steps), namespaces)

\* the text nodes of the nodes, in document order (an element without text
\* has no text node)
RECURSIVE TextNodes(_)
TextNodes(nodes) ==
    IF nodes = <<>> THEN <<>>
    ELSE (IF Head(nodes).text = "" THEN <<>> ELSE <<PyStr(Head(nodes).text)>>)
         \o TextNodes(Tail(nodes))

\* element.xpath(expr, namespaces=namespaces). A parsed element evaluates the
\* expression from itself; any other object with an xpath method (kind "stub")
\* answers what it was built to answer. The outcome is a Python value or a
\* raised exception: a prefix the namespaces do not bind raises.
Xpath(element, expr, namespaces) ==
    IF element.kind = "stub" THEN element.results[expr]
    ELSE IF \E i \in 1..Len(expr.steps) : expr.steps[i].prefix \notin DOMAIN namespaces
         THEN Raise("XPathEvalError")
    ELSE LET nodes == Select(<<element.node>>, expr.steps, namespaces)
         IN IF expr.kind = "text()" THEN PyList(TextNodes(nodes))
            ELSE \* string(): the text of the first node selected, or ''
                 PyStr(IF nodes = <<>> THEN "" ELSE Head(nodes).text)

----------------------------------------------------------------------------
(* MetadataReader *)

\* MetadataReader.__init__: namespaces or {} (NoNamespaces stands for None)
NoNamespaces == <<>>
MetadataReader(fields, namespaces) == [fields |-> fields, namespaces |-> namespaces]

\* field_type.endswith('List'), over the type names of the model
EndsWithList(field_type) == field_type \in {"bytesList", "textList", "intList"}

\* value of the 'bytesList' branch
BytesListValue(raw_result) ==
    PyList(StrEach(IF raw_result.t = "list" THEN raw_result.l ELSE <<raw_result>>))

\* the 'textList' branch collecting the matches last to first
TextListValueReversed(raw_result) ==
    IF raw_result.t = "list"
    THEN PyList([i \in 1..Len(raw_result.l) |->
                    Str(raw_result.l[Len(raw_result.l) + 1 - i])])
    ELSE IF raw_result.t # "None" THEN PyList(<<Str(raw_result)>>)
    ELSE PyList(<<>>)

\* value of the 'textList' branch
TextListValue(raw_result) ==
    IF raw_result.t = "list" THEN PyList(StrEach(raw_result.l))
    ELSE IF raw_result.t # "None" THEN PyList(<<Str(raw_result)>>)
    ELSE PyList(<<>>)

\* the if/elif chain on field_type: the value, or the raised Error
Coerce(field_type, raw_result) ==
    CASE field_type = "bytes"     -> Str(raw_result)
      [] field_type = "bytesList" -> BytesListValue(raw_result)
      [] field_type = "text"      -> Str(raw_result)
      [] field_type = "textList"  -> TextListValue(raw_result)
      [] OTHER                    -> Raise("Error")

\* map[field_name] = value
Put(map, field_name, value) == (field_name :> value) @@ map

\* the try block: the path evaluation, the coercion; a value or what was raised
TryBlock(field, element, namespaces) ==
    LET raw_result == Xpath(element, field.expr, namespaces)
    IN IF raw_result.t = "raise" THEN raw_result
       ELSE Coerce(field.type, raw_result)

\* a handler that lets the exception go on to the caller
ExceptHandlerReraise(map, field, ex) == [t |-> "raise", s |-> ex.s, map |-> map]

\* a handler whose default is the empty string whatever the type
ExceptHandlerScalarDefault(map, field, ex) ==
    [t |-> "ok", s |-> "", map |-> Put(map, field.name, PyStr(""))]

\* except Exception as ex: the warning on stderr, then the default of the type
ExceptHandler(map, field, ex) ==
    [t |-> "ok", s |-> "",
     map |-> Put(map, field.name,
                 IF EndsWithList(field.type) THEN PyList(<<>>) ELSE PyStr(""))]

\* one iteration of the for loop
LoopBody(map, field, element, namespaces) ==
    LET value == TryBlock(field, element, namespaces)
    IN IF value.t = "raise" THEN ExceptHandler(map, field, value)
       ELSE [t |-> "ok", s |-> "", map |-> Put(map, field.name, value)]

\* the for loop over self._fields.items(), from the map built so far
RECURSIVE Loop(_, _, _, _)
Loop(map, fields, element, namespaces) ==
    IF fields = <<>> THEN [t |-> "ok", s |-> "", map |-> map]
    ELSE LET r == LoopBody(map, Head(fields), element, namespaces)
         IN IF r.t = "raise" THEN r
            ELSE Loop(r.map, Tail(fields), element, namespaces)

\* MetadataReader.__call__: common.Metadata(element, map), or what was raised
Call(reader, element) ==
    LET r == Loop(<<>>, reader.fields, element, reader.namespaces)
    IN IF r.t = "raise" THEN [t |-> "raise", s |-> r.s]
       ELSE [t |-> "Metadata", element |-> element, map |-> r.map]

----------------------------------------------------------------------------
(* The reader alone, on every schema and element of the bounds *)

Texts == {"A", "B"}
FieldNames == {"title", "creator"}
KnownTypes == {"bytes", "bytesList", "text", "textList"}
FieldTypes == KnownTypes \cup {"int", "intList"}
StubExprs == {DcExpr("title"), DcExpr("creator")}

SeqsUpTo(S, n) == UNION {[1..k -> S] : k \in 0..n}

\* what a path evaluation can produce
RawResults ==
    {PyNone, PyStr(""), PyStr("A"), PyBool(TRUE)}
    \cup {PyList(l) : l \in SeqsUpTo({PyStr(x) : x \in Texts}, MaxMatches)}
Outcomes == RawResults \cup {Raise("XPathEvalError")}

StubElements == {[kind |-> "stub", results |-> f] : f \in [StubExprs -> Outcomes]}

FieldDecls == [name : FieldNames, type : FieldTypes, expr : StubExprs]

\* a fields dictionary, as its items in order: the names are distinct
Schemas ==
    {s \in SeqsUpTo(FieldDecls, Cardinality(FieldNames)) :
        \A i, j \in 1..Len(s) : i # j => s[i].name # s[j].name}

\* a caller holds a reader built from a schema, and an element to read
InitReader ==
    /\ readers = <<>>
    /\ writers = <<>>
    /\ result \in [op : {"input"}, fields : Schemas, element : StubElements]
    /\ log = <<>>
    /\ checked = {}

\* reader(element), for the reader MetadataReader(fields)
CallReader ==
    /\ result.op = "input"
    /\ result' = [op |-> "call", fields |-> result.fields, element |-> result.element,
                  ret |-> Call(MetadataReader(result.fields, NoNamespaces), result.element)]
    /\ UNCHANGED <<readers, writers, log, checked>>

NextReader == CallReader

SpecReader == InitReader /\ [][NextReader]_vars

----------------------------------------------------------------------------
(* oai_dc_reader and the elements it reads *)

OaiNs   == "http://www.openarchives.org/OAI/2.0/"
OaiDcNs == "http://www.openarchives.org/OAI/2.0/oai_dc/"
DcNs    == "http://purl.org/dc/elements/1.1/"

DcNames == <<"title", "creator", "subject", "description", "publisher",
             "contributor", "date", "type", "format", "identifier", "source",
             "language", "relation", "coverage", "rights">>

oai_dc_reader ==
    MetadataReader(
        [i \in 1..Len(DcNames) |->
            [name |-> DcNames[i], type |-> "textList", expr |-> DcExpr(DcNames[i])]],
        ("oai_dc" :> OaiDcNs) @@ ("dc" :> DcNs))

\* another reader a caller may build and register: a scalar field, and a
\* field whose expression uses a prefix the namespaces do not bind
title_reader ==
    MetadataReader(
        <<[name |-> "title", type |-> "text", expr |-> DcString("title")],
          [name |-> "creator", type |-> "textList",
           expr |-> PathExpr("text()", <<Step("oai_dc", "dc"), Step("dcterms", "creator")>>)]>>,
        ("oai_dc" :> OaiDcNs) @@ ("dc" :> DcNs))

Node(ns, local, text, children) ==
    [ns |-> ns, local |-> local, text |-> text, children |-> children]

\* <oai_dc:dc><dc:title>A</dc:title><dc:title>B</dc:title>
\*            <dc:creator>C</dc:creator></oai_dc:dc>
DcNode ==
    Node(OaiDcNs, "dc", "",
         <<Node(DcNs, "title", "A", <<>>), Node(DcNs, "title", "B", <<>>),
           Node(DcNs, "creator", "C", <<>>)>>)

\* the oai_dc:dc element itself, and the <metadata> element that holds it
DcElement       == [kind |-> "tree", node |-> DcNode]
MetadataElement == [kind |-> "tree", node |-> Node(OaiNs, "metadata", "", <<DcNode>>)]

----------------------------------------------------------------------------
(* MetadataRegistry *)

FormatIds   == {"oai_dc", "x"}
ReaderNames == {"oai_dc_reader", "title_reader"}
WriterNames == {"oai_dc_writer", "x_writer"}
Elements    == {DcElement, MetadataElement}

ReaderOf(r) == IF r = "oai_dc_reader" THEN oai_dc_reader ELSE title_reader

\* a store that drops the entries the dictionary held
StoreAlone(map, metadata_prefix, callable) == (metadata_prefix :> callable)

\* a store that keeps an entry already present
StoreIfAbsent(map, metadata_prefix, callable) == map @@ (metadata_prefix :> callable)

\* self._readers[metadata_prefix] = reader; self._writers[metadata_prefix] = writer
Store(map, metadata_prefix, callable) == (metadata_prefix :> callable) @@ map

\* a lookup that answers an empty record for an unknown prefix
ReadOrEmpty(map, metadata_prefix, element) ==
    IF metadata_prefix \in DOMAIN map
    THEN [ret |-> Call(ReaderOf(map[metadata_prefix]), element),
          invoked |-> map[metadata_prefix]]
    ELSE [ret |-> [t |-> "Metadata", element |-> element, map |-> <<>>],
          invoked |-> "none"]

\* self._readers[metadata_prefix](element): the KeyError of the lookup, or what
\* the reader found returns
Read(map, metadata_prefix, element) ==
    IF metadata_prefix \in DOMAIN map
    THEN [ret |-> Call(ReaderOf(map[metadata_prefix]), element),
          invoked |-> map[metadata_prefix]]
    ELSE [ret |-> [t |-> "raise", s |-> "KeyError"], invoked |-> "none"]

\* self._writers[metadata_prefix](element, metadata): the KeyError of the
\* lookup, or the call of the writer found (a writer returns nothing)
Write(map, metadata_prefix, element) ==
    IF metadata_prefix \in DOMAIN map
    THEN [ret |-> [t |-> "None"], invoked |-> map[metadata_prefix]]
    ELSE [ret |-> [t |-> "raise", s |-> "KeyError"], invoked |-> "none"]

\* MetadataRegistry.__init__
Init ==
    /\ readers = <<>>
    /\ writers = <<>>
    /\ result = [op |-> "__init__", f |-> "", arg |-> "", ret |-> [t |-> "None"],
                 invoked |-> "none"]
    /\ log = <<>>
    /\ checked = {}

registerReader(metadata_prefix, reader) ==
    /\ Len(log) < MaxRegs
    /\ readers' = Store(readers, metadata_prefix, reader)
    /\ log' = Append(log, [kind |-> "reader", f |-> metadata_prefix, c |-> reader])
    /\ result' = [op |-> "registerReader", f |-> metadata_prefix, arg |-> reader,
                  ret |-> [t |-> "None"], invoked |-> "none"]
    /\ UNCHANGED <<writers, checked>>

registerWriter(metadata_prefix, writer) ==
    /\ Len(log) < MaxRegs
    /\ writers' = Store(writers, metadata_prefix, writer)
    /\ log' = Append(log, [kind |-> "writer", f |-> metadata_prefix, c |-> writer])
    /\ result' = [op |-> "registerWriter", f |-> metadata_prefix, arg |-> writer,
                  ret |-> [t |-> "None"], invoked |-> "none"]
    /\ UNCHANGED <<readers, checked>>

hasReader(metadata_prefix) ==
    /\ result' = [op |-> "hasReader", f |-> metadata_prefix, arg |-> "",
                  ret |-> [t |-> "bool", b |-> metadata_prefix \in DOMAIN readers],
                  invoked |-> "none"]
    /\ checked' = IF metadata_prefix \in DOMAIN readers
                  THEN checked \cup {metadata_prefix} ELSE checked
    /\ UNCHANGED <<readers, writers, log>>

hasWriter(metadata_prefix) ==
    /\ result' = [op |-> "hasWriter", f |-> metadata_prefix, arg |-> "",
                  ret |-> [t |-> "bool", b |-> metadata_prefix \in DOMAIN writers],
                  invoked |-> "none"]
    /\ UNCHANGED <<readers, writers, log, checked>>

readMetadata(metadata_prefix, element) ==
    /\ LET r == Read(readers, metadata_prefix, element)
       IN result' = [op |-> "readMetadata", f |-> metadata_prefix, arg |-> element,
                     ret |-> r.ret, invoked |-> r.invoked]
    /\ UNCHANGED <<readers, writers, log, checked>>

writeMetadata(metadata_prefix, element) ==
    /\ LET r == Write(writers, metadata_prefix, element)
       IN result' = [op |-> "writeMetadata", f |-> metadata_prefix, arg |-> element,
                     ret |-> r.ret, invoked |-> r.invoked]
    /\ UNCHANGED <<readers, writers, log, checked>>

Next ==
    \/ \E f \in FormatIds, r \in ReaderNames : registerReader(f, r)
    \/ \E f \in FormatIds, w \in WriterNames : registerWriter(f, w)
    \/ \E f \in FormatIds : hasReader(f)
    \/ \E f \in FormatIds : hasWriter(f)
    \/ \E f \in FormatIds, e \in Elements : readMetadata(f, e)
    \/ \E f \in FormatIds, e \in Elements : writeMetadata(f, e)

Spec == Init /\ [][Next]_vars

----------------------------------------------------------------------------
(* Properties of the reader *)

Returned == result.op = "call"
Names(fields) == {fields[i].name : i \in 1..Len(fields)}
Fields == result.fields
\* what the path evaluation of the i-th declared field did
RawOf(i) == Xpath(result.element, Fields[i].expr, NoNamespaces)
AllKnown == \A i \in 1..Len(Fields) : Fields[i].type \in KnownTypes
IsRecord == result.ret.t = "Metadata" /\ DOMAIN result.ret.map = Names(Fields)
ValueOf(i) == result.ret.map[Fields[i].name]
DefaultOf(type) == IF type \in {"bytes", "text"} THEN PyStr("") ELSE PyList(<<>>)
Without(fields, i) == SubSeq(fields, 1, i - 1) \o SubSeq(fields, i + 1, Len(fields))

\* C1: for a schema whose field types are all among the four recognized kinds,
\* the call returns a record (it does not raise) whose keys are exactly the
\* declared field names, whatever each path evaluation did.
C1_ExactKeys == (Returned /\ AllKnown) => IsRecord

\* a two-field schema of recognized types read where one evaluation raised and
\* the other matched two nodes
C1_Witness ==
    /\ Returned /\ AllKnown /\ Len(Fields) = 2
    /\ RawOf(1).t = "raise"
    /\ RawOf(2).t = "list" /\ Len(RawOf(2).l) = 2
    /\ IsRecord

\* C3: when the evaluation of one declared field (of a recognized type) raises,
\* the read completes, that field holds the default of its type, and every
\* other field holds the value a read without the failing field gives it.
C3_FailureIsolated ==
    Returned =>
        \A i \in 1..Len(Fields) :
            (Fields[i].type \in KnownTypes /\ RawOf(i).t = "raise") =>
                /\ IsRecord
                /\ ValueOf(i) = DefaultOf(Fields[i].type)
                /\ LET rest == Call(MetadataReader(Without(Fields, i), NoNamespaces),
                                    result.element)
                   IN /\ rest.t = "Metadata"
                      /\ \A j \in 1..Len(Fields) :
                            j # i => /\ Fields[j].name \in DOMAIN rest.map
                                     /\ ValueOf(j) = rest.map[Fields[j].name]

\* the first field, a list type, raised; the second got a value that is no default
C3_Witness ==
    /\ Returned /\ Len(Fields) = 2 /\ IsRecord
    /\ Fields[1].type = "textList" /\ RawOf(1).t = "raise"
    /\ Fields[2].type = "textList" /\ RawOf(2).t = "list" /\ Len(RawOf(2).l) = 2
    /\ ValueOf(1) = PyList(<<>>)
    /\ ValueOf(2) = PyList(<<PyStr("A"), PyStr("B")>>)

\* C4: a schema declaring a field of an unrecognized type makes the read fail
\* with the unknown-field-type error: no record is returned.
C4_UnknownTypeFails ==
    (Returned /\ ~AllKnown) => (result.ret.t = "raise" /\ result.ret.s = "Error")

\* C5: a 'text' field whose expression matches no nodes (the evaluation returns
\* the empty list) holds the empty string.
C5_EmptyTextIsEmptyString ==
    Returned =>
        \A i \in 1..Len(Fields) :
            (Fields[i].type = "text" /\ RawOf(i) = PyList(<<>>)) =>
                (IsRecord /\ ValueOf(i) = PyStr(""))

\* C6: for both list types, a raw result that is not a list gives the empty
\* list when it is None or the empty string, and otherwise the one-element
\* list of its string form.
C6_NonListRawResult ==
    Returned =>
        \A i \in 1..Len(Fields) :
            (Fields[i].type \in {"bytesList", "textList"}
                /\ RawOf(i).t \notin {"list", "raise"}) =>
                /\ IsRecord
                /\ ValueOf(i) = IF RawOf(i) \in {PyNone, PyStr("")}
                                THEN PyList(<<>>)
                                ELSE PyList(<<Str(RawOf(i))>>)

\* C7: a 'textList' field whose expression matches k text nodes holds a list of
\* exactly k strings, the i-th the text of the i-th match.
C7_TextListInOrder ==
    Returned =>
        \A i \in 1..Len(Fields) :
            (Fields[i].type = "textList" /\ RawOf(i).t = "list") =>
                /\ IsRecord
                /\ ValueOf(i).t = "list"
                /\ Len(ValueOf(i).l) = Len(RawOf(i).l)
                /\ \A k \in 1..Len(RawOf(i).l) :
                      ValueOf(i).l[k] = PyStr(RawOf(i).l[k].s)

\* a 'textList' field whose expression matched "A" then "B", beside one that
\* matched nothing
C7_Witness ==
    /\ Returned /\ Len(Fields) = 2 /\ IsRecord
    /\ Fields[1].type = "textList" /\ RawOf(1) = PyList(<<PyStr("A"), PyStr("B")>>)
    /\ Fields[2].type = "textList" /\ RawOf(2) = PyList(<<>>)
    /\ ValueOf(1).l = <<PyStr("A"), PyStr("B")>>
    /\ ValueOf(2).l = <<>>

----------------------------------------------------------------------------
(* Properties of the registry *)

\* the prefixes passed to the registration calls of a kind so far
Registered(kind) == {log[i].f : i \in {k \in 1..Len(log) : log[k].kind = kind}}
\* the callable of the most recent registration of a kind for a prefix
LastRegistered(kind, f) ==
    LET at == {k \in 1..Len(log) : log[k].kind = kind /\ log[k].f = f}
    IN log[CHOOSE k \in at : \A m \in at : m <= k].c
KeyError(ret) == ret.t = "raise" /\ ret.s = "KeyError"

\* C2: for a prefix with no registered reader, hasReader answers False and
\* readMetadata raises the KeyError of the lookup, returns no record, invokes
\* no reader and leaves both dictionaries as they were; writeMetadata does the
\* same for a prefix with no registered writer.
C2_UnknownFormat ==
    [][ /\ (result'.op = "hasReader" /\ result'.f \notin DOMAIN readers) =>
               (result'.ret.t = "bool" /\ result'.ret.b = FALSE)
        /\ (result'.op = "readMetadata" /\ result'.f \notin DOMAIN readers) =>
               /\ KeyError(result'.ret)
               /\ result'.invoked = "none"
               /\ readers' = readers /\ writers' = writers
        /\ (result'.op = "writeMetadata" /\ result'.f \notin DOMAIN writers) =>
               /\ KeyError(result'.ret)
               /\ result'.invoked = "none"
               /\ readers' = readers /\ writers' = writers ]_vars

\* readMetadata has failed for a prefix without reader while another prefix
\* has a reader and the prefix itself has a writer
C2_Witness ==
    /\ result.op = "readMetadata"
    /\ result.f \notin DOMAIN readers
    /\ result.f \in DOMAIN writers
    /\ readers # <<>>
    /\ KeyError(result.ret)

\* C8: the reader dictionary holds exactly the prefixes passed to
\* registerReader, each with the reader of its most recent registration, and
\* the writer dictionary likewise for registerWriter; so hasReader answers True
\* exactly for the prefixes registered as readers, and readMetadata invokes the
\* most recently registered reader of the prefix and returns its record.
C8_LastRegistrationWins ==
    /\ DOMAIN readers = Registered("reader")
    /\ \A f \in DOMAIN readers : readers[f] = LastRegistered("reader", f)
    /\ DOMAIN writers = Registered("writer")
    /\ \A f \in DOMAIN writers : writers[f] = LastRegistered("writer", f)
    /\ result.op = "hasReader" =>
           result.ret.b = (result.f \in Registered("reader"))
    /\ (result.op = "readMetadata" /\ result.f \in Registered("reader")) =>
           /\ result.invoked = LastRegistered("reader", result.f)
           /\ result.ret.t = "Metadata"
           /\ result.ret = Call(ReaderOf(LastRegistered("reader", result.f)), result.arg)

\* a prefix registered twice with different readers, a writer nowhere, read
C8_Witness ==
    /\ Len(log) = 2
    /\ log[1].kind = "reader" /\ log[2].kind = "reader"
    /\ log[1].f = log[2].f /\ log[1].c # log[2].c
    /\ result.op = "readMetadata" /\ result.f = log[1].f
    /\ result.invoked = log[2].c
    /\ writers = <<>>

\* the record of the scenario: title A, B; creator C; the other twelve empty
ScenarioRecord(map) ==
    /\ DOMAIN map = {DcNames[i] : i \in 1..Len(DcNames)}
    /\ map["title"] = PyList(<<PyStr("A"), PyStr("B")>>)
    /\ map["creator"] = PyList(<<PyStr("C")>>)
    /\ \A n \in DOMAIN map \ {"title", "creator"} : map[n] = PyList(<<>>)
ReadBy(reader, element) ==
    result.op = "readMetadata" /\ result.invoked = reader /\ result.arg = element

\* C9 as stated: reading the oai_dc:dc element itself with oai_dc_reader gives
\* the record of the scenario.
C9_ScenarioFromDcElement ==
    ReadBy("oai_dc_reader", DcElement) =>
        (result.ret.t = "Metadata" /\ ScenarioRecord(result.ret.map))

\* C9 amended: reading the element whose child is the oai_dc:dc element gives
\* the record of the scenario, and reading the oai_dc:dc element itself gives
\* fifteen empty lists.
C9_ScenarioFromParent ==
    /\ ReadBy("oai_dc_reader", MetadataElement) =>
           (result.ret.t = "Metadata" /\ ScenarioRecord(result.ret.map))
    /\ ReadBy("oai_dc_reader", DcElement) =>
           /\ result.ret.t = "Metadata"
           /\ DOMAIN result.ret.map = {DcNames[i] : i \in 1..Len(DcNames)}
           /\ \A n \in DOMAIN result.ret.map : result.ret.map[n] = PyList(<<>>)

C9_Witness ==
    /\ ReadBy("oai_dc_reader", MetadataElement)
    /\ result.ret.map["title"] = PyList(<<PyStr("A"), PyStr("B")>>)

\* C10: a prefix for which hasReader has answered True keeps a reader whatever
\* is registered afterwards, so a later readMetadata of it does not fail in the
\* lookup and invokes a reader that a registerReader call gave for that prefix.
C10_CheckThenRead ==
    /\ checked \subseteq DOMAIN readers
    /\ (result.op = "readMetadata" /\ result.f \in checked) =>
           /\ ~KeyError(result.ret)
           /\ \E i \in 1..Len(log) :
                 log[i] = [kind |-> "reader", f |-> result.f, c |-> result.invoked]

\* hasReader answered True, two registrations followed, then the read
C10_Witness ==
    /\ result.op = "readMetadata" /\ result.f \in checked
    /\ Len(log) = 2 /\ log[1].f = result.f /\ log[2].f # result.f
    /\ log[2].kind = "reader"
    /\ result.invoked = log[1].c

====
